---- MODULE Spec2Model ----
(***************************************************************************)
(* ReactionTestCore (src/ReactionCore.js): the reaction-timing engine, the  *)
(* host timer queue it schedules on, and the host wiring of its callbacks.  *)
(*                                                                          *)
(* The engine is single-threaded: every public method and every timer       *)
(* callback runs to completion, so each is one action.  An operation is an  *)
(* operator from a "world" record w (engine state, timer queue, clock,      *)
(* callbacks raised so far, return value) to the world after it, composed   *)
(* the way the methods call each other.                                     *)
(*                                                                          *)
(* Time.  The engine reads the clock only to take differences                *)
(* (Date.now() - stimulusStartTime) and the host compares a timer's due      *)
(* time with the current time, so every stored time is kept relative to the  *)
(* current instant: the clock reads 0 in every state, and a tick moves       *)
(* every stored time one tick into the past.                                 *)
(***************************************************************************)
EXTENDS Integers, Sequences, FiniteSets, TLC

VARIABLES
    config,          \* this.config, fixed at construction
    onSpamDetected,  \* which handler is assigned to core.onSpamDetected
    state,           \* this.state
    timers,          \* the host's queue of live timers, soonest first
    op,              \* the operation the last step ran
    emitted,         \* the callbacks the last step raised, in order
    ret,             \* what the last registerInput returned
    sinceScheduled,  \* history: ticks since scheduleNextStimulus chose the pending pre-delay (NULL: none pending)
    interrupted,     \* history: abuse/reset/retry happened since the last onStimulusShow
    firstAccepted,   \* history: elapsed time of the first input accepted since the last show or reset
    paused,          \* history: abuse paused the round and nobody resumed/restarted it yet
    discarded,       \* history: the last step emptied a test history that held a round
    resumed,         \* history: the host's handler resumed the round after abuse and it has not been restarted or completed since
    shownInRound,    \* history: the index the last onStimulusShow carried since the round was started (0: none yet; NULL: abuse interrupted the round)
    showing,         \* history: the last of onStimulusShow and onStimulusHide raised so far was onStimulusShow
    bioArgs,         \* the arguments of a call of calculateBioAge
    bioAge           \* whether the call was made and what it returned

vars == <<config, onSpamDetected, state, timers, op, emitted, ret,
          sinceScheduled, interrupted, firstAccepted, paused, discarded,
          resumed, shownInRound, showing, bioArgs, bioAge>>

----------------------------------------------------------------------------
(* Bounds of the model *)

\* The clock is followed for this many ticks after the latest stimulus start.
MaxElapsed == 3

\* No operation may leave more live timers than this in the host queue.
MaxTimers == 2

\* No operation may leave more round summaries than this in the test history.
MaxHistory == 2

\* calculateBioAge is tried on ages up to this many years outside the table.
AgeMargin == 2

----------------------------------------------------------------------------
(* Values *)

\* JavaScript null, for the number-valued slots pendingReaction and timerId.
NULL == -1

\* Date.now(): the current instant is the origin of the time axis.
now == 0

\* null | record, as a sequence of length 0 or 1.
None == <<>>
Some(x) == <<x>>

\* new ReactionTestCore(config) and the handler then assigned to
\* core.onSpamDetected: "noop" is the constructor's empty default (and the
\* effect of a handler that only switches screens), "resume" the handler that
\* sets isRunning and calls scheduleNextStimulus.  Durations are in ticks.
Setups ==
    { \* one round of one stimulus, two valid reaction times, ceiling 2
      [handler |-> "noop",
       config |-> [rounds |-> 1, stimuliCount |-> 1, exposureTime |-> 2,
                   minDelay |-> 1, maxDelay |-> 1, minValidReactionTime |-> 1,
                   maxSpamClicks |-> 2]],
      \* two rounds of one stimulus, one valid reaction time
      [handler |-> "noop",
       config |-> [rounds |-> 2, stimuliCount |-> 1, exposureTime |-> 2,
                   minDelay |-> 1, maxDelay |-> 1, minValidReactionTime |-> 2,
                   maxSpamClicks |-> 1]],
      \* one round of two stimuli, resumed by the host after abuse
      [handler |-> "resume",
       config |-> [rounds |-> 1, stimuliCount |-> 2, exposureTime |-> 1,
                   minDelay |-> 1, maxDelay |-> 1, minValidReactionTime |-> 1,
                   maxSpamClicks |-> 1]],
      \* a pre-delay drawn from a range
      [handler |-> "noop",
       config |-> [rounds |-> 1, stimuliCount |-> 1, exposureTime |-> 1,
                   minDelay |-> 1, maxDelay |-> 3, minValidReactionTime |-> 2,
                   maxSpamClicks |-> 1]],
      \* rounds without stimuli
      [handler |-> "noop",
       config |-> [rounds |-> 2, stimuliCount |-> 0, exposureTime |-> 1,
                   minDelay |-> 1, maxDelay |-> 1, minValidReactionTime |-> 1,
                   maxSpamClicks |-> 1]] }

RECURSIVE SumSeq(_)
\* validResults.reduce((a, b) => a + b, 0)
SumSeq(s) == IF s = <<>> THEN 0 ELSE Head(s) + SumSeq(Tail(s))

\* Math.round(sum / n) for sum >= 0, n > 0: floor(sum/n + 1/2).
MathRound(sum, n) == (2 * sum + n) \div (2 * n)

\* Math.floor(Math.random() * (maxDelay - minDelay) + minDelay), Math.random() in [0, 1).
Delays(c) ==
    IF c.maxDelay > c.minDelay THEN c.minDelay .. (c.maxDelay - 1)
    ELSE IF c.maxDelay = c.minDelay THEN {c.minDelay}
    ELSE (c.maxDelay) .. c.minDelay

----------------------------------------------------------------------------
(* The host timer queue *)

TimerIds(q) == {q[i].id : i \in 1..Len(q)}

\* The id setTimeout returns.  The host counts ids up forever; the engine keeps
\* only the last id (state.timerId) and overwrites it at every setTimeout, so an
\* id no live timer holds is as good as a fresh one.
NewTimerId(q) == CHOOSE i \in 1..(Len(q) + 1) : i \notin TimerIds(q)

\* setTimeout(callback, delay): the queue is kept sorted by due time, a new
\* timer after the ones due at the same time.
setTimeout(q, callback, due) ==
    LET t == [id |-> NewTimerId(q), callback |-> callback, triggerTime |-> due]
        before == SelectSeq(q, LAMBDA x : x.triggerTime <= due)
        after == SelectSeq(q, LAMBDA x : x.triggerTime > due)
    IN  before \o <<t>> \o after

\* clearTimeout(id): a no-op for null and for the id of a timer that fired.
clearTimeout(q, id) == SelectSeq(q, LAMBDA x : x.id # id)

----------------------------------------------------------------------------
(* Callbacks *)

Event(name) ==
    [name |-> name, index |-> 0, total |-> 0, stats |-> None, isFinal |-> FALSE]

Raise(w, e) == [w EXCEPT !.emitted = Append(@, e)]

Count(es, name) == Cardinality({i \in 1..Len(es) : es[i].name = name})

----------------------------------------------------------------------------
(* The engine *)

\* this.state after the constructor
InitialState ==
    [isRunning |-> FALSE, isRoundActive |-> FALSE, currentRound |-> 0,
     currentStimulusIndex |-> 0, stimulusResults |-> <<>>, roundAverages |-> <<>>,
     allRounds |-> <<>>, stimulusStartTime |-> 0, isStimulusVisible |-> FALSE,
     clickCountForStimulus |-> 0, pendingReaction |-> NULL, timerId |-> NULL]

\* A summary's raw list is the stimulusResults array itself, not a copy
\* (shared = TRUE) until state.stimulusResults is assigned a new array.
Unshare(rounds) == [i \in 1..Len(rounds) |-> [rounds[i] EXCEPT !.shared = FALSE]]

PushShared(rounds, v) ==
    [i \in 1..Len(rounds) |->
        IF rounds[i].shared THEN [rounds[i] EXCEPT !.raw = Append(@, v)] ELSE rounds[i]]

calculateRoundStats(s) ==
    IF Len(s.stimulusResults) = 0 THEN None
    ELSE Some([roundNumber |-> s.currentRound,
               average |-> MathRound(SumSeq(s.stimulusResults), Len(s.stimulusResults)),
               count |-> Len(s.stimulusResults),
               raw |-> s.stimulusResults])

\* A round completion that never reports the final round.
finishRound_neverFinal(w) ==
    LET stats == calculateRoundStats(w.state)
        w1 == [w EXCEPT !.state.isRoundActive = FALSE,
                        !.state.roundAverages =
                            Append(@, IF stats # None THEN stats[1].average ELSE 0),
                        !.state.allRounds =
                            Append(@, [roundNumber |-> w.state.currentRound,
                                       average |-> IF stats # None THEN stats[1].average ELSE 0,
                                       count |-> Len(w.state.stimulusResults),
                                       raw |-> w.state.stimulusResults,
                                       shared |-> stats # None])]
    IN  Raise(w1, [Event("roundComplete") EXCEPT !.stats = stats])

finishRound(w) ==
    LET stats == calculateRoundStats(w.state)
        isFinalRound == w.state.currentRound >= w.config.rounds
        w1 == [w EXCEPT !.state.isRoundActive = FALSE]
        w2 == IF stats # None
              THEN [w1 EXCEPT !.state.roundAverages = Append(@, stats[1].average),
                              !.state.allRounds =
                                  Append(@, [roundNumber |-> stats[1].roundNumber,
                                             average |-> stats[1].average,
                                             count |-> stats[1].count,
                                             raw |-> stats[1].raw,
                                             shared |-> TRUE])]
              ELSE [w1 EXCEPT !.state.roundAverages = Append(@, 0),
                              !.state.allRounds =
                                  Append(@, [roundNumber |-> w.state.currentRound,
                                             average |-> 0, count |-> 0,
                                             raw |-> <<>>, shared |-> FALSE])]
    IN  Raise(w2, [Event("roundComplete") EXCEPT !.stats = stats,
                                                 !.isFinal = isFinalRound])

scheduleNextStimulus(w, delay) ==
    IF w.state.currentStimulusIndex >= w.config.stimuliCount
    THEN finishRound(w)
    ELSE [w EXCEPT !.state.timerId = NewTimerId(w.timers),
                   !.timers = setTimeout(w.timers, "showStimulus", now + delay),
                   !.sinceScheduled = 0]

showStimulus(w) ==
    LET w1 == [w EXCEPT !.state.isStimulusVisible = TRUE,
                        !.state.stimulusStartTime = now,
                        !.state.clickCountForStimulus = 0,
                        !.state.pendingReaction = NULL]
        w2 == Raise(w1, [Event("stimulusShown") EXCEPT
                             !.index = w.state.currentStimulusIndex + 1,
                             !.total = w.config.stimuliCount])
    IN  [w2 EXCEPT !.state.timerId = NewTimerId(w.timers),
                   !.timers = setTimeout(w.timers, "finishExposure",
                                         now + w.config.exposureTime)]

\* An exposure end that leaves the stimulus open to input.
finishExposure_staysVisible(w, delay) ==
    LET w1 == Raise(w, Event("stimulusHidden"))
        w2 == IF w.state.pendingReaction # NULL
              THEN [w1 EXCEPT !.state.stimulusResults =
                                  Append(@, w.state.pendingReaction),
                              !.state.allRounds =
                                  PushShared(@, w.state.pendingReaction)]
              ELSE w1
        w3 == [w2 EXCEPT !.state.currentStimulusIndex = @ + 1]
    IN  scheduleNextStimulus(w3, delay)

\* An exposure end that records a miss as a reaction time of zero.
finishExposure_missAsZero(w, delay) ==
    LET w1 == Raise([w EXCEPT !.state.isStimulusVisible = FALSE],
                    Event("stimulusHidden"))
        v == IF w.state.pendingReaction # NULL THEN w.state.pendingReaction ELSE 0
        w2 == [w1 EXCEPT !.state.stimulusResults = Append(@, v),
                         !.state.allRounds = PushShared(@, v)]
        w3 == [w2 EXCEPT !.state.currentStimulusIndex = @ + 1]
    IN  scheduleNextStimulus(w3, delay)

finishExposure(w, delay) ==
    LET w1 == Raise([w EXCEPT !.state.isStimulusVisible = FALSE],
                    Event("stimulusHidden"))
        w2 == IF w.state.pendingReaction # NULL
              THEN [w1 EXCEPT !.state.stimulusResults =
                                  Append(@, w.state.pendingReaction),
                              !.state.allRounds =
                                  PushShared(@, w.state.pendingReaction)]
              ELSE w1
        w3 == [w2 EXCEPT !.state.currentStimulusIndex = @ + 1]
    IN  scheduleNextStimulus(w3, delay)

\* The handler assigned to core.onSpamDetected.
spamHandler(w, delay) ==
    IF w.onSpamDetected = "resume"
    THEN scheduleNextStimulus([w EXCEPT !.state.isRunning = TRUE], delay)
    ELSE w

handleSpam(w, delay) ==
    LET w1 == [w EXCEPT !.state.isRoundActive = FALSE,
                        !.timers = clearTimeout(w.timers, w.state.timerId)]
        w2 == Raise(w1, Event("stimulusHidden"))
        w3 == Raise(w2, Event("spamDetected"))
    IN  spamHandler(w3, delay)

\* A guard that forgets the round may be paused.
inputIgnored_visibleOnly(w) == ~w.state.isStimulusVisible

\* registerInput's first check: no stimulus is visible or the round is not active.
inputIgnored(w) == ~w.state.isRoundActive \/ ~w.state.isStimulusVisible

\* No check for an earlier reaction.
alreadyReacted_never(w) == FALSE

\* registerInput's check that this stimulus already has its reaction.
alreadyReacted(w) == w.state.pendingReaction # NULL

\* No floor on the reaction time.
tooFast_never(w) == FALSE

\* registerInput's filter of reactions faster than minValidReactionTime.
tooFast(w) == now - w.state.stimulusStartTime < w.config.minValidReactionTime

\* An input handler that reports a too-fast input as accepted.
registerInput_tooFastReportedTrue(w, delay) ==
    IF inputIgnored(w)
    THEN [w EXCEPT !.ret = FALSE]
    ELSE LET w1 == [w EXCEPT !.state.clickCountForStimulus = @ + 1]
             reactionTime == now - w.state.stimulusStartTime
         IN  IF w1.state.clickCountForStimulus > w.config.maxSpamClicks
             THEN [handleSpam(w1, delay) EXCEPT !.ret = FALSE]
             ELSE IF alreadyReacted(w1)
             THEN [w1 EXCEPT !.ret = FALSE]
             ELSE IF tooFast(w1)
             THEN [w1 EXCEPT !.ret = TRUE]
             ELSE [w1 EXCEPT !.state.pendingReaction = reactionTime,
                             !.ret = TRUE]

registerInput(w, delay) ==
    IF inputIgnored(w)
    THEN [w EXCEPT !.ret = FALSE]
    ELSE LET w1 == [w EXCEPT !.state.clickCountForStimulus = @ + 1]
             reactionTime == now - w.state.stimulusStartTime
         IN  IF w1.state.clickCountForStimulus > w.config.maxSpamClicks
             THEN [handleSpam(w1, delay) EXCEPT !.ret = FALSE]
             ELSE IF alreadyReacted(w1)
             THEN [w1 EXCEPT !.ret = FALSE]
             ELSE IF tooFast(w1)
             THEN [w1 EXCEPT !.ret = FALSE]
             ELSE [w1 EXCEPT !.state.pendingReaction = reactionTime,
                             !.ret = TRUE]

resetRoundState(w) ==
    [w EXCEPT !.state.stimulusResults = <<>>,
              !.state.allRounds = Unshare(@),
              !.state.currentStimulusIndex = 0,
              !.state.isRunning = FALSE,
              !.state.isRoundActive = FALSE,
              !.state.isStimulusVisible = FALSE,
              !.state.pendingReaction = NULL,
              !.timers = clearTimeout(w.timers, w.state.timerId)]

\* A reset that forgets the round counter.
resetFullTest_keepsRound(w) ==
    resetRoundState([w EXCEPT !.state.roundAverages = <<>>,
                              !.state.allRounds = <<>>])

\* A reset that forgets the test history.
resetFullTest_keepsHistory(w) ==
    resetRoundState([w EXCEPT !.state.currentRound = 0])

resetFullTest(w) ==
    resetRoundState([w EXCEPT !.state.roundAverages = <<>>,
                              !.state.allRounds = <<>>,
                              !.state.currentRound = 0])

\* A next round that starts whatever the round counter says.
startNextRound_unguarded(w, delay) ==
    scheduleNextStimulus(
        [w EXCEPT !.state.currentRound = @ + 1,
                  !.state.currentStimulusIndex = 0,
                  !.state.stimulusResults = <<>>,
                  !.state.allRounds = Unshare(@),
                  !.state.isRunning = TRUE,
                  !.state.isRoundActive = TRUE],
        delay)

startNextRound(w, delay) ==
    IF w.state.currentRound >= w.config.rounds
    THEN w
    ELSE scheduleNextStimulus(
             [w EXCEPT !.state.currentRound = @ + 1,
                       !.state.currentStimulusIndex = 0,
                       !.state.stimulusResults = <<>>,
                       !.state.allRounds = Unshare(@),
                       !.state.isRunning = TRUE,
                       !.state.isRoundActive = TRUE],
             delay)

start(w, delay) == startNextRound(resetFullTest(w), delay)

retryCurrentRound(w, delay) ==
    LET w1 == resetRoundState(w)
    IN  scheduleNextStimulus([w1 EXCEPT !.state.isRunning = TRUE,
                                        !.state.isRoundActive = TRUE],
                             delay)

RECURSIVE Flatten(_)
\* All raw reaction times of the summaries, pooled.
Flatten(rounds) ==
    IF rounds = <<>> THEN <<>> ELSE Head(rounds).raw \o Flatten(Tail(rounds))

\* The earlier variant's result: the mean of all raw reaction times, pooled.
getFinalResults_pooled(s) ==
    IF Len(s.roundAverages) = 0 THEN None
    ELSE Some([grandAverage |->
                   IF Flatten(s.allRounds) = <<>> THEN 0
                   ELSE MathRound(SumSeq(Flatten(s.allRounds)),
                                  Len(Flatten(s.allRounds))),
               roundAverages |-> s.roundAverages,
               roundsDetails |-> s.allRounds])

getFinalResults(s) ==
    IF Len(s.roundAverages) = 0 THEN None
    ELSE Some([grandAverage |-> MathRound(SumSeq(s.roundAverages), Len(s.roundAverages)),
               roundAverages |-> s.roundAverages,
               roundsDetails |-> s.allRounds])

----------------------------------------------------------------------------
(* The normative calculator *)

\* Numbers.  Reaction times and normative constants are counted in hundredths
\* of a millisecond (the table's precision), ages in half years, and a
\* quotient is kept as the fraction num/den; comparisons and roundings are
\* those of the exact quotient, where the code's are those of the nearest
\* double.
NaN == -1000

\* BIO_AGE_NORMATIVE_TABLE, in hundredths of a millisecond
BIO_AGE_NORMATIVE_TABLE ==
    [male |-> [a \in 7..16 |->
                 CASE a = 7 -> 35786 [] a = 8 -> 34472 [] a = 9 -> 30267
                   [] a = 10 -> 29573 [] a = 11 -> 26415 [] a = 12 -> 26226
                   [] a = 13 -> 24871 [] a = 14 -> 24360 [] a = 15 -> 23590
                   [] a = 16 -> 23160],
     female |-> [a \in 7..16 |->
                 CASE a = 7 -> 38706 [] a = 8 -> 34732 [] a = 9 -> 31179
                   [] a = 10 -> 30415 [] a = 11 -> 27293 [] a = 12 -> 26874
                   [] a = 13 -> 25678 [] a = 14 -> 25177 [] a = 15 -> 24730
                   [] a = 16 -> 23940]]

\* Names the table object answers without holding them: the properties an
\* object literal inherits.  Their values are truthy and have no numeric entry.
InheritedNames == {"constructor"}

\* Math.floor(age), age in half years; NaN stays NaN.
MathFloor(age) == IF age = NaN THEN NaN ELSE age \div 2

\* A lookup without the clamp.
tableAge_unclamped(age) == MathFloor(age)

\* Math.min(Math.max(Math.floor(age), 7), 16); NaN stays NaN.
tableAge(age) ==
    LET f == MathFloor(age)
    IN  IF f = NaN THEN NaN
        ELSE LET m == IF f > 7 THEN f ELSE 7
             IN  IF m < 16 THEN m ELSE 16

\* A lookup that knows one table only.
genderTable_alwaysMale(gender) == BIO_AGE_NORMATIVE_TABLE.male

\* A lookup without the fallback.
genderTable_noFallback(gender) ==
    IF gender \in DOMAIN BIO_AGE_NORMATIVE_TABLE
    THEN BIO_AGE_NORMATIVE_TABLE[gender]
    ELSE [a \in {} |-> 0]

\* BIO_AGE_NORMATIVE_TABLE[gender] || BIO_AGE_NORMATIVE_TABLE['male']
genderTable(gender) ==
    IF gender \in DOMAIN BIO_AGE_NORMATIVE_TABLE
    THEN BIO_AGE_NORMATIVE_TABLE[gender]
    ELSE IF gender \in InheritedNames THEN [a \in {} |-> 0]
    ELSE BIO_AGE_NORMATIVE_TABLE.male

\* x.toFixed(2) for x = num/den, den >= 0, as a count of hundredths; the
\* quotient by zero is Infinity, -Infinity or NaN.
toFixed2(num, den) ==
    IF den = 0
    THEN [text |-> IF num > 0 THEN "Infinity"
                   ELSE IF num < 0 THEN "-Infinity" ELSE "NaN",
          hundredths |-> 0]
    ELSE [text |-> "number",
          hundredths |-> IF num >= 0
                         THEN (200 * num + den) \div (2 * den)
                         ELSE -((200 * (-num) + den) \div (2 * den))]

\* A verdict that counts the two limits out of the normal range.
conclusion_limitsExcluded(tbr) ==
    IF tbr.num * 100 >= 110 * tbr.den THEN "delayed"
    ELSE IF tbr.num * 100 <= 95 * tbr.den THEN "accelerated"
    ELSE "normal"

\* let conclusion = normal; if (tbr < 0.95) accelerated; if (tbr > 1.10) delayed
conclusion(tbr) ==
    IF tbr.num * 100 > 110 * tbr.den THEN "delayed"
    ELSE IF tbr.num * 100 < 95 * tbr.den THEN "accelerated"
    ELSE "normal"

calculateBioAge(actualMs, age, gender) ==
    LET bucket == tableAge(age)
        table == genderTable(gender)
    IN  IF bucket \notin DOMAIN table
        THEN None
        ELSE LET normMs == table[bucket]
                 tbr == [num |-> actualMs, den |-> normMs]
             IN  Some([chronologicalAge |-> age,
                       \* age / tbr = (age/2) * normMs / actualMs
                       biologicalAge |-> toFixed2(age * normMs, 2 * actualMs),
                       tbr |-> toFixed2(tbr.num, tbr.den),
                       normMs |-> normMs,
                       conclusion |-> conclusion(tbr)])

\* No call of calculateBioAge is modelled in the engine's runs.
NoCall == [actualMs |-> 0, age |-> 0, gender |-> "male"]
NotCalled == [called |-> FALSE, result |-> None]

----------------------------------------------------------------------------
(* The state machine *)

\* The world an operation starts from: nothing raised yet.
World ==
    [config |-> config, onSpamDetected |-> onSpamDetected, state |-> state,
     timers |-> timers, emitted |-> <<>>, ret |-> FALSE,
     sinceScheduled |-> sinceScheduled]

Raised(w, name) == Count(w.emitted, name) > 0

RECURSIVE ShowingAfter(_, _)
\* Whether a stimulus is on show, by what was notified: b before the callbacks
\* es, the answer after them.
ShowingAfter(b, es) ==
    IF es = <<>> THEN b
    ELSE ShowingAfter(IF Head(es).name = "stimulusShown" THEN TRUE
                      ELSE IF Head(es).name = "stimulusHidden" THEN FALSE
                      ELSE b,
                      Tail(es))

\* The step that runs operation `name` and ends in world w.
Apply(name, w) ==
    /\ Len(w.timers) <= MaxTimers
    /\ Len(w.state.roundAverages) <= MaxHistory
    /\ state' = w.state
    /\ timers' = w.timers
    /\ emitted' = w.emitted
    /\ ret' = w.ret
    /\ sinceScheduled' = IF name = "showStimulus" THEN NULL ELSE w.sinceScheduled
    /\ op' = name
    /\ interrupted' =
          IF Raised(w, "stimulusShown") THEN FALSE
          ELSE IF name \in {"start", "resetFullTest", "retryCurrentRound"}
                  \/ Raised(w, "spamDetected") THEN TRUE
          ELSE interrupted
    /\ firstAccepted' =
          IF Raised(w, "stimulusShown")
             \/ name \in {"start", "resetFullTest", "retryCurrentRound"} THEN NULL
          ELSE IF name = "registerInput" /\ w.ret /\ firstAccepted = NULL
               THEN now - state.stimulusStartTime
          ELSE firstAccepted
    /\ paused' =
          IF Raised(w, "spamDetected") THEN onSpamDetected = "noop"
          ELSE IF name \in {"start", "startNextRound", "resetFullTest",
                            "retryCurrentRound"} THEN FALSE
          ELSE paused
    /\ discarded' = (state.roundAverages # <<>> /\ w.state.roundAverages = <<>>)
    /\ resumed' =
          IF Raised(w, "spamDetected") THEN onSpamDetected = "resume"
          ELSE IF name \in {"start", "startNextRound", "resetFullTest",
                            "retryCurrentRound"}
                  \/ Raised(w, "roundComplete") THEN FALSE
          ELSE resumed
    /\ shownInRound' =
          IF name \in {"start", "resetFullTest", "retryCurrentRound"}
             \/ (name = "startNextRound" /\ state.currentRound < config.rounds)
          THEN 0
          ELSE IF Raised(w, "spamDetected") THEN NULL
          ELSE IF Raised(w, "stimulusShown") /\ shownInRound # NULL
               THEN state.currentStimulusIndex + 1
          ELSE shownInRound
    /\ showing' = ShowingAfter(showing, w.emitted)
    /\ UNCHANGED <<config, onSpamDetected, bioArgs, bioAge>>

Init ==
    /\ \E s \in Setups : config = s.config /\ onSpamDetected = s.handler
    /\ state = InitialState
    /\ timers = <<>>
    /\ op = "new"
    /\ emitted = <<>>
    /\ ret = FALSE
    /\ sinceScheduled = NULL
    /\ interrupted = FALSE
    /\ firstAccepted = NULL
    /\ paused = FALSE
    /\ discarded = FALSE
    /\ resumed = FALSE
    /\ shownInRound = 0
    /\ showing = FALSE
    /\ bioArgs = NoCall
    /\ bioAge = NotCalled

Start == \E delay \in Delays(config) : Apply("start", start(World, delay))

StartNextRound ==
    \E delay \in Delays(config) : Apply("startNextRound", startNextRound(World, delay))

ResetFullTest == Apply("resetFullTest", resetFullTest(World))

RetryCurrentRound ==
    \E delay \in Delays(config) :
        Apply("retryCurrentRound", retryCurrentRound(World, delay))

RegisterInput ==
    \E delay \in Delays(config) : Apply("registerInput", registerInput(World, delay))

\* The host runs the timer at the head of its queue when it is due.
Due == timers # <<>> /\ Head(timers).triggerTime <= now

ShowStimulus ==
    /\ Due
    /\ Head(timers).callback = "showStimulus"
    /\ Apply("showStimulus", showStimulus([World EXCEPT !.timers = Tail(timers)]))

FinishExposure ==
    /\ Due
    /\ Head(timers).callback = "finishExposure"
    /\ \E delay \in Delays(config) :
          Apply("finishExposure",
                finishExposure([World EXCEPT !.timers = Tail(timers)], delay))

\* Time passes while no timer is due: one tick later, every stored time lies
\* one tick further in the past.
Tick ==
    /\ ~Due
    /\ now - state.stimulusStartTime < MaxElapsed
    /\ timers' = [i \in 1..Len(timers) |-> [timers[i] EXCEPT !.triggerTime = @ - 1]]
    /\ state' = [state EXCEPT !.stimulusStartTime = @ - 1]
    /\ sinceScheduled' = IF sinceScheduled = NULL THEN NULL ELSE sinceScheduled + 1
    /\ op' = "tick"
    /\ emitted' = <<>>
    /\ ret' = FALSE
    /\ discarded' = FALSE
    /\ UNCHANGED <<config, onSpamDetected, interrupted, firstAccepted, paused,
                   resumed, shownInRound, showing, bioArgs, bioAge>>

Next ==
    \/ Start
    \/ StartNextRound
    \/ ResetFullTest
    \/ RetryCurrentRound
    \/ RegisterInput
    \/ ShowStimulus
    \/ FinishExposure
    \/ Tick

Spec == Init /\ [][Next]_vars

----------------------------------------------------------------------------
(* The normative calculator on its own: one call with arguments drawn from
   the samples *)

\* Reaction times worth trying for a normative constant n: zero, the constant
\* and both limits of the normal range with their neighbours.
ActualSamplesOf(n) ==
    {0, n, (95 * n) \div 100 - 1, (95 * n) \div 100, (95 * n) \div 100 + 1,
     (110 * n) \div 100 - 1, (110 * n) \div 100, (110 * n) \div 100 + 1}

ActualSamples ==
    UNION {ActualSamplesOf(BIO_AGE_NORMATIVE_TABLE[g][a]) :
              g \in DOMAIN BIO_AGE_NORMATIVE_TABLE, a \in 7..16}

\* Ages in half years: not a number, below zero, zero, and every half year
\* from AgeMargin years below the table to AgeMargin years above it.
AgeSamples == {NaN, -3, 0} \cup ((2 * (7 - AgeMargin)) .. (2 * (16 + AgeMargin) + 1))

GenderSamples == {"male", "female", "other", "constructor"}

BioInit ==
    /\ config = (CHOOSE s \in Setups : s.handler = "resume").config
    /\ onSpamDetected = "resume"
    /\ state = InitialState
    /\ timers = <<>>
    /\ op = "new"
    /\ emitted = <<>>
    /\ ret = FALSE
    /\ sinceScheduled = NULL
    /\ interrupted = FALSE
    /\ firstAccepted = NULL
    /\ paused = FALSE
    /\ discarded = FALSE
    /\ resumed = FALSE
    /\ shownInRound = 0
    /\ showing = FALSE
    /\ bioArgs \in [actualMs : ActualSamples, age : AgeSamples, gender : GenderSamples]
    /\ bioAge = NotCalled

CalculateBioAge ==
    /\ ~bioAge.called
    /\ bioAge' = [called |-> TRUE,
                  result |-> calculateBioAge(bioArgs.actualMs, bioArgs.age,
                                             bioArgs.gender)]
    /\ UNCHANGED <<config, onSpamDetected, state, timers, op, emitted, ret,
                   sinceScheduled, interrupted, firstAccepted, paused,
                   discarded, resumed, shownInRound, showing, bioArgs>>

BioNext == CalculateBioAge

BioSpec == BioInit /\ [][BioNext]_vars

----------------------------------------------------------------------------
(* Observations used by the properties *)

\* A freshly constructed engine with the same configuration and wiring.
NewWorld ==
    [config |-> config, onSpamDetected |-> onSpamDetected, state |-> InitialState,
     timers |-> <<>>, emitted |-> <<>>, ret |-> FALSE, sinceScheduled |-> NULL]

\* The part of the state a test-taker's session consists of.
Lifecycle(s) ==
    [currentRound |-> s.currentRound,
     currentStimulusIndex |-> s.currentStimulusIndex,
     stimulusResults |-> s.stimulusResults,
     roundAverages |-> s.roundAverages,
     allRounds |-> s.allRounds,
     isStimulusVisible |-> s.isStimulusVisible,
     pendingReaction |-> s.pendingReaction,
     isRunning |-> s.isRunning,
     isRoundActive |-> s.isRoundActive]

\* Date.now() - stimulusStartTime
Elapsed == now - state.stimulusStartTime

\* registerInput passes its first check.
InputReachesStimulus == state.isRoundActive /\ state.isStimulusVisible

Averages(rounds) == [i \in 1..Len(rounds) |-> rounds[i].average]

\* The summaries as a caller reads them: roundNumber, average, count, raw.
Summaries(rounds) ==
    [i \in 1..Len(rounds) |->
        [roundNumber |-> rounds[i].roundNumber, average |-> rounds[i].average,
         count |-> rounds[i].count, raw |-> rounds[i].raw]]

----------------------------------------------------------------------------
(* Properties *)

\* C1: every stimulus not interrupted by abuse, resetFullTest or
\* retryCurrentRound is hidden by finishExposure exactly exposureTime after it
\* was shown, and an accepted registerInput neither hides it nor touches a timer.
C1_ExposureIsExact ==
    [][/\ (op' = "finishExposure" /\ ~interrupted)
            => Elapsed = config.exposureTime
       /\ (op' = "registerInput" /\ ret')
            => /\ state'.isStimulusVisible
               /\ emitted' = <<>>
               /\ timers' = timers]_vars

\* C2: abuse is raised once, by the input that takes the click count above
\* maxSpamClicks and by no input at or below it, and while the round stays
\* paused no timer fires, the index and the results stand still and nothing
\* is raised.
C2_AbusePausesTheRound ==
    [][/\ (op' = "registerInput" /\ Count(emitted', "spamDetected") > 0)
            => /\ Count(emitted', "spamDetected") = 1
               /\ ~paused
               /\ state.clickCountForStimulus >= config.maxSpamClicks
       /\ (op' = "registerInput" /\ InputReachesStimulus
             /\ state.clickCountForStimulus >= config.maxSpamClicks)
            => Count(emitted', "spamDetected") = 1
       /\ (paused /\ paused')
            => /\ op' \notin {"showStimulus", "finishExposure"}
               /\ state'.currentStimulusIndex = state.currentStimulusIndex
               /\ state'.stimulusResults = state.stimulusResults
               /\ emitted' = <<>>]_vars

\* C3: no reaction time below minValidReactionTime is ever in stimulusResults
\* or in the raw list of a round summary.
C3_NoReactionBelowFloor ==
    /\ \A i \in 1..Len(state.stimulusResults) :
          state.stimulusResults[i] >= config.minValidReactionTime
    /\ \A k \in 1..Len(state.allRounds) :
          \A i \in 1..Len(state.allRounds[k].raw) :
             state.allRounds[k].raw[i] >= config.minValidReactionTime

\* A round summary holds a committed reaction time.
C3_Witness ==
    \E k \in 1..Len(state.allRounds) : Len(state.allRounds[k].raw) > 0

\* C4: once a reaction is pending, a further registerInput within the click
\* ceiling returns false and leaves it alone, and what finishExposure commits
\* is the elapsed time of the first input accepted for that stimulus.
C4_FirstAcceptedReactionStands ==
    [][/\ (op' = "registerInput" /\ state.pendingReaction # NULL
             /\ state.clickCountForStimulus < config.maxSpamClicks)
            => /\ ret' = FALSE
               /\ state'.pendingReaction = state.pendingReaction
       /\ (op' = "finishExposure" /\ state'.stimulusResults # state.stimulusResults)
            => /\ firstAccepted # NULL
               /\ state'.stimulusResults =
                     Append(state.stimulusResults, firstAccepted)]_vars

\* A second input, later than the accepted one and within the ceiling, was
\* turned away and the pending reaction is still that of the first.
C4_Witness ==
    /\ op = "registerInput"
    /\ ~ret
    /\ state.clickCountForStimulus = 2
    /\ state.clickCountForStimulus <= config.maxSpamClicks
    /\ state.pendingReaction # NULL
    /\ state.pendingReaction = firstAccepted
    /\ Elapsed > state.pendingReaction

\* C5: registerInput while no stimulus is visible or the round is not active
\* returns false, changes nothing of the engine or its timers and raises
\* nothing.
C5_IgnoredInputChangesNothing ==
    [][(op' = "registerInput" /\ ~InputReachesStimulus)
          => /\ ret' = FALSE
             /\ state' = state
             /\ timers' = timers
             /\ emitted' = <<>>]_vars

\* An input was turned away while abuse has the round paused.
C5_Witness ==
    /\ op = "registerInput"
    /\ paused
    /\ state.isStimulusVisible
    /\ ~state.isRoundActive
    /\ emitted = <<>>

\* C6: a stimulus appears between minDelay and maxDelay after the round start
\* or the previous hide that scheduled it.
C6_PreDelayWithinRange ==
    [][(op' = "showStimulus" /\ sinceScheduled # NULL)
          => /\ sinceScheduled >= config.minDelay
             /\ sinceScheduled <= config.maxDelay]_vars

\* C7: start() leaves the session as start() on a freshly constructed engine
\* does, whatever came before: round 1, index 0, empty results and history,
\* no stimulus visible, round active (for a round that has a stimulus).
C7_StartIsAFreshStart ==
    [][op' = "start"
          => /\ \E delay \in Delays(config) :
                   Lifecycle(state') = Lifecycle(start(NewWorld, delay).state)
             /\ (config.rounds >= 1 /\ config.stimuliCount >= 1)
                   => /\ state'.currentRound = 1
                      /\ state'.currentStimulusIndex = 0
                      /\ state'.stimulusResults = <<>>
                      /\ state'.roundAverages = <<>>
                      /\ state'.allRounds = <<>>
                      /\ ~state'.isStimulusVisible
                      /\ state'.isRoundActive]_vars

\* start() was called on an engine that had completed a round, whose last
\* stimulus had been clicked and which still had a timer of an earlier round
\* in the queue.
C7_Witness ==
    /\ op = "start"
    /\ discarded
    /\ state.clickCountForStimulus > 0
    /\ Len(timers) = 2

\* C8: what onRoundComplete receives is the round's summary, with count 0 and
\* average 0 for a round without a valid reaction.
C8_RoundCompleteCarriesSummary ==
    [][\A i \in 1..Len(emitted') :
          emitted'[i].name = "roundComplete"
             => /\ emitted'[i].stats # None
                /\ emitted'[i].stats[1].count = Len(state'.stimulusResults)
                /\ (state'.stimulusResults = <<>>
                      => emitted'[i].stats[1].average = 0)]_vars

\* C9: the grand average is the rounded mean of the rounds' averages, which
\* roundAverages lists in the order the rounds completed.
C9_GrandAverageOfRoundAverages ==
    LET r == getFinalResults(state)
        n == Len(state.allRounds)
        total == SumSeq(Averages(state.allRounds))
    IN  r # None
           => /\ r[1].roundAverages = Averages(state.allRounds)
              /\ 2 * n * r[1].grandAverage <= 2 * total + n
              /\ 2 * total + n < 2 * n * (r[1].grandAverage + 1)

\* Two rounds completed and the grand average is not the pooled mean.
C9_Witness ==
    LET r == getFinalResults(state)
        pooled == Flatten(state.allRounds)
    IN  /\ r # None
        /\ Len(state.allRounds) = 2
        /\ pooled # <<>>
        /\ r[1].grandAverage # MathRound(SumSeq(pooled), Len(pooled))

\* C10: getFinalResults is null until a round completes, is a result as soon
\* as one has, and is null again after resetFullTest.
C10_NoResultBeforeARound ==
    /\ getFinalResults(InitialState) = None
    /\ [][/\ Raised([emitted |-> emitted'], "roundComplete")
               => getFinalResults(state') # None
          /\ (op' \in {"start", "resetFullTest"}
                /\ ~Raised([emitted |-> emitted'], "roundComplete"))
               => getFinalResults(state') = None
          /\ (op' \notin {"start", "resetFullTest"}
                /\ ~Raised([emitted |-> emitted'], "roundComplete"))
               => (getFinalResults(state') = None
                      <=> getFinalResults(state) = None)]_vars

\* resetFullTest has discarded the history of a completed round and no result
\* is on offer.
C10_Witness ==
    /\ op = "resetFullTest"
    /\ discarded
    /\ getFinalResults(state) = None

\* C11: a step completes a round exactly when it leaves currentStimulusIndex at
\* stimuliCount with the cycle asked to go on; such a step raises
\* onRoundComplete once, adds one entry to roundAverages and one summary (of
\* the current round, with that average) to allRounds, and reports the final
\* round exactly when the round's number is config.rounds; no other step adds
\* to the history.
C11_RoundCompletesOnce ==
    [][LET n == Count(emitted', "roundComplete")
           before == IF op' = "start" THEN 0 ELSE Len(state.roundAverages)
           last == Len(state'.allRounds)
       IN  /\ n <= 1
           /\ (op' = "finishExposure"
                 /\ state'.currentStimulusIndex >= config.stimuliCount) => n = 1
           /\ n = 1
                => /\ state'.currentStimulusIndex >= config.stimuliCount
                   /\ Len(state'.roundAverages) = before + 1
                   /\ Len(state'.allRounds) = before + 1
                   /\ state'.allRounds[last].roundNumber = state'.currentRound
                   /\ state'.allRounds[last].count = Len(state'.stimulusResults)
                   /\ state'.roundAverages[last] = state'.allRounds[last].average
                   /\ \A i \in 1..Len(emitted') :
                         emitted'[i].name = "roundComplete"
                            => (emitted'[i].isFinal
                                  <=> state'.currentRound = config.rounds)
           /\ n = 0
                => /\ Len(state'.roundAverages) <= Len(state.roundAverages)
                   /\ Len(state'.allRounds) <= Len(state.allRounds)]_vars

\* The exposure of the last stimulus of the final round ended: the second
\* summary was added and the completion was reported as final.
C11_Witness ==
    /\ op = "finishExposure"
    /\ Len(state.allRounds) = 2
    /\ state.allRounds[2].count > 0
    /\ state.allRounds[1].roundNumber = 1
    /\ state.currentRound = 2
    /\ config.rounds = 2
    /\ \E i \in 1..Len(emitted) :
          emitted[i].name = "roundComplete" /\ emitted[i].isFinal

\* C12: startNextRound with currentRound >= rounds changes nothing of the
\* engine or its timers and raises nothing; with currentRound < rounds it
\* adds exactly one to currentRound and begins that round at index 0 with
\* empty stimulusResults and a pre-delay timer (or completes it at once when
\* the round has no stimulus); currentRound never exceeds rounds.
C12_NextRoundOnlyWhileRoundsRemain ==
    [][/\ (op' = "startNextRound" /\ state.currentRound >= config.rounds)
            => /\ state' = state
               /\ timers' = timers
               /\ emitted' = <<>>
       /\ (op' = "startNextRound" /\ state.currentRound < config.rounds)
            => /\ state'.currentRound = state.currentRound + 1
               /\ state'.currentStimulusIndex = 0
               /\ state'.stimulusResults = <<>>
               /\ state'.isRunning
               /\ IF config.stimuliCount > 0
                  THEN /\ state'.isRoundActive
                       /\ Len(timers') = Len(timers) + 1
                       /\ \E i \in 1..Len(timers') :
                             /\ timers'[i].id = state'.timerId
                             /\ timers'[i].callback = "showStimulus"
                  ELSE Raised([emitted |-> emitted'], "roundComplete")
       /\ state'.currentRound <= config.rounds]_vars

\* startNextRound was called after the last configured round had completed.
C12_Witness ==
    /\ op = "startNextRound"
    /\ state.currentRound = config.rounds
    /\ Len(state.roundAverages) = config.rounds
    /\ ~state.isRoundActive
    /\ emitted = <<>>
    /\ timers = <<>>

\* C13: retryCurrentRound resets currentStimulusIndex to 0, empties
\* stimulusResults and pendingReaction, leaves no timer of before the retry
\* live next to the pre-delay it arms, and leaves currentRound, roundAverages
\* and the summaries in allRounds as they were.
C13_RetryClearsOnlyTheRound ==
    [][op' = "retryCurrentRound"
          => /\ state'.currentStimulusIndex = 0
             /\ state'.stimulusResults = <<>>
             /\ state'.pendingReaction = NULL
             /\ state'.currentRound = state.currentRound
             /\ state'.roundAverages = state.roundAverages
             /\ Summaries(state'.allRounds) = Summaries(state.allRounds)
             /\ Len(timers') = 1
             /\ timers'[1].callback = "showStimulus"
             /\ timers'[1].id = state'.timerId]_vars

\* C14: when the host's handler resumes the round after abuse, the results
\* accumulated in the round are kept and a pre-delay is armed, and on a
\* stimulus shown after the resume an input at or after minValidReactionTime,
\* the first for that stimulus and within the click ceiling, is accepted.
C14_ResumeRearmsTheRound ==
    [][/\ (op' = "registerInput" /\ Raised([emitted |-> emitted'], "spamDetected")
             /\ onSpamDetected = "resume")
            => /\ state'.stimulusResults = state.stimulusResults
               /\ state'.isRunning
               /\ \E i \in 1..Len(timers') :
                     /\ timers'[i].id = state'.timerId
                     /\ timers'[i].callback = "showStimulus"
       /\ (op' = "registerInput" /\ resumed /\ ~interrupted
             /\ state.isStimulusVisible
             /\ state.pendingReaction = NULL
             /\ state.clickCountForStimulus < config.maxSpamClicks
             /\ Elapsed >= config.minValidReactionTime)
            => ret']_vars

\* C15: for a recognized sex and every age that is a number, the result is
\* not absent, the normative constant used is that of the age clamped into
\* 7..16 (age 7's below the table, age 16's above it), and chronologicalAge is
\* the age as given.
C15_AgeClampedForLookupOnly ==
    (bioAge.called /\ bioArgs.age # NaN
       /\ bioArgs.gender \in {"male", "female"})
       => /\ bioAge.result # None
          /\ bioAge.result[1].chronologicalAge = bioArgs.age
          /\ bioAge.result[1].normMs =
                BIO_AGE_NORMATIVE_TABLE[bioArgs.gender][
                    IF bioArgs.age < 2 * 7 THEN 7
                    ELSE IF bioArgs.age >= 2 * 17 THEN 16
                    ELSE bioArgs.age \div 2]

\* A girl of 5 was measured against the constant of age 7 and is reported as 5.
C15_Witness ==
    /\ bioAge.called
    /\ bioArgs.age = 2 * 5
    /\ bioArgs.gender = "female"
    /\ bioAge.result # None
    /\ bioAge.result[1].normMs = 38706
    /\ bioAge.result[1].chronologicalAge = 2 * 5

\* C16: exactly one verdict is returned and the ratio actualMs / N decides it:
\* accelerated below 0.95, delayed above 1.10, normal from 0.95 to 1.10 with
\* both limits.
C16_VerdictByRatio ==
    (bioAge.called /\ bioAge.result # None)
       => LET r == bioAge.result[1]
              a == bioArgs.actualMs
          IN  /\ r.conclusion \in {"accelerated", "normal", "delayed"}
              /\ r.conclusion = "accelerated" <=> 100 * a < 95 * r.normMs
              /\ r.conclusion = "delayed" <=> 100 * a > 110 * r.normMs
              /\ r.conclusion = "normal"
                    <=> (95 * r.normMs <= 100 * a /\ 100 * a <= 110 * r.normMs)

\* A ratio of exactly 0.95 was judged normal.
C16_Witness ==
    /\ bioAge.called
    /\ bioAge.result # None
    /\ 100 * bioArgs.actualMs = 95 * bioAge.result[1].normMs
    /\ bioAge.result[1].conclusion = "normal"

\* C17: a measured average equal to the normative constant of the child's own
\* bucket gives ratio 1.00, the normal verdict and a biological age equal to
\* the chronological age.
C17_NormativeTimeGivesOwnAge ==
    (bioAge.called /\ bioArgs.gender \in {"male", "female"}
       /\ bioArgs.age \in {2 * a : a \in 7..16}
       /\ bioArgs.actualMs =
             BIO_AGE_NORMATIVE_TABLE[bioArgs.gender][bioArgs.age \div 2])
       => /\ bioAge.result # None
          /\ bioAge.result[1].biologicalAge =
                [text |-> "number", hundredths |-> 100 * (bioArgs.age \div 2)]
          /\ bioAge.result[1].tbr = [text |-> "number", hundredths |-> 100]
          /\ bioAge.result[1].conclusion = "normal"

\* 262.26 ms at age 12, male: biological age 12.00.
C17_Witness ==
    /\ bioAge.called
    /\ bioArgs = [actualMs |-> 26226, age |-> 2 * 12, gender |-> "male"]
    /\ bioAge.result # None
    /\ bioAge.result[1].biologicalAge = [text |-> "number", hundredths |-> 1200]

\* C18 as stated: a sex value other than male and female gives the absent
\* result, and so does an age whose clamped bucket the table does not hold.
C18_UnrecognizedSexIsAbsent ==
    bioAge.called
       => /\ bioArgs.gender \notin {"male", "female"} => bioAge.result = None
          /\ bioArgs.age = NaN => bioAge.result = None

\* C18 as amended: a sex value that names nothing in the table falls back to
\* the male table and gives what male gives, not absent for an age that is a
\* number; the result is absent exactly for an age that is not a number and
\* for a sex value naming a property the table object inherits.
C18_UnrecognizedSexFallsBackToMale ==
    bioAge.called
       => /\ (bioArgs.gender \notin {"male", "female"}
                /\ bioArgs.gender \notin InheritedNames)
               => /\ bioAge.result =
                        calculateBioAge(bioArgs.actualMs, bioArgs.age, "male")
                  /\ bioArgs.age # NaN
                        => /\ bioAge.result # None
                           /\ bioAge.result[1].normMs
                                 \in {BIO_AGE_NORMATIVE_TABLE.male[a] : a \in 7..16}
          /\ bioAge.result = None
                <=> (bioArgs.age = NaN \/ bioArgs.gender \in InheritedNames)

\* A call with a sex value the table does not know, age 12, was answered
\* with the male constant of age 12.
C18_Witness ==
    /\ bioAge.called
    /\ bioArgs.gender = "other"
    /\ bioArgs.age = 2 * 12
    /\ bioAge.result # None
    /\ bioAge.result[1].normMs = 26226
    /\ bioAge.result[1].conclusion = "delayed"

\* C19: at most one engine timer is live, and it is the one state.timerId
\* names.
C19_OneTimerOutstanding ==
    /\ Len(timers) <= 1
    /\ \A i \in 1..Len(timers) : timers[i].id = state.timerId

\* C20: resetFullTest leaves no timer live, and until the engine is started
\* again no callback is raised and index, results and averages stay at their
\* reset values; no timer of before a retryCurrentRound or of before the
\* handling of abuse is live after it.
C20_NoStaleCallbackAfterReset ==
    [][/\ op' = "resetFullTest" => timers' = <<>>
       /\ (~state.isRunning
             /\ op' \notin {"start", "startNextRound", "retryCurrentRound"})
            => /\ emitted' = <<>>
               /\ state'.currentStimulusIndex = 0
               /\ state'.stimulusResults = <<>>
               /\ state'.roundAverages = <<>>
       /\ (op' = "retryCurrentRound"
             \/ Raised([emitted |-> emitted'], "spamDetected"))
            => /\ Len(timers') <= 1
               /\ \A i \in 1..Len(timers') :
                     /\ timers'[i].id = state'.timerId
                     /\ timers'[i].callback = "showStimulus"
                     /\ sinceScheduled' = 0]_vars

\* C21: a reaction is pending only while a stimulus is visible, and it is the
\* elapsed time of the first input accepted for that stimulus.
C21_PendingOnlyWhileVisible ==
    state.pendingReaction # NULL
       => /\ state.isStimulusVisible
          /\ state.pendingReaction = firstAccepted

\* C22: no stimulus is visible while the round is not active.
C22_VisibleOnlyWhileRoundActive ==
    state.isStimulusVisible => state.isRoundActive

\* C23: abuse is detected inside a registerInput that returns false; that call
\* raises onStimulusHide once and then onSpamDetected once, and leaves no
\* exposure timer live, so that finishExposure does not run for the stimulus.
C23_AbuseHidesThenReports ==
    [][Raised([emitted |-> emitted'], "spamDetected")
          => /\ op' = "registerInput"
             /\ ret' = FALSE
             /\ Len(emitted') >= 2
             /\ emitted'[1].name = "stimulusHidden"
             /\ emitted'[2].name = "spamDetected"
             /\ Count(emitted', "stimulusHidden") = 1
             /\ Count(emitted', "spamDetected") = 1
             /\ \A i \in 1..Len(timers') :
                   timers'[i].callback # "finishExposure"]_vars

\* C24: an input that passes registerInput's first check adds one to
\* clickCountForStimulus whatever becomes of it; it is abuse exactly when the
\* count then exceeds maxSpamClicks, whether or not a reaction is pending, and
\* abuse commits nothing: neither that call nor any step before the next
\* stimulus is shown or the round is restarted adds to stimulusResults.
C24_EveryClickCounts ==
    [][/\ (op' = "registerInput" /\ InputReachesStimulus)
            => /\ state'.clickCountForStimulus = state.clickCountForStimulus + 1
               /\ Raised([emitted |-> emitted'], "spamDetected")
                     <=> state.clickCountForStimulus + 1 > config.maxSpamClicks
               /\ Raised([emitted |-> emitted'], "spamDetected")
                     => /\ ~state'.isRoundActive
                        /\ state'.stimulusResults = state.stimulusResults
       /\ ((paused \/ resumed) /\ interrupted)
            => Len(state'.stimulusResults) <= Len(state.stimulusResults)]_vars

\* C25: finishExposure appends the pending reaction, once, to stimulusResults
\* when there is one and leaves stimulusResults alone when there is none; in
\* both cases it adds one to currentStimulusIndex and raises onStimulusHide
\* once.
C25_ExposureEndCommitsOrMisses ==
    [][op' = "finishExposure"
          => /\ state.pendingReaction # NULL
                   => state'.stimulusResults =
                         Append(state.stimulusResults, state.pendingReaction)
             /\ state.pendingReaction = NULL
                   => state'.stimulusResults = state.stimulusResults
             /\ state'.currentStimulusIndex = state.currentStimulusIndex + 1
             /\ Count(emitted', "stimulusHidden") = 1]_vars

\* The exposure of the second stimulus ended without a reaction: the round
\* completed with the one reaction time of the first stimulus.
C25_Witness ==
    /\ op = "finishExposure"
    /\ state.pendingReaction = NULL
    /\ state.currentStimulusIndex = 2
    /\ Len(state.stimulusResults) = 1
    /\ Count(emitted, "stimulusHidden") = 1
    /\ Raised([emitted |-> emitted], "roundComplete")

\* C26: every onStimulusShow carries total = stimuliCount and an index from 1
\* to total, and is raised with the click count at 0 and no reaction pending;
\* in a round that abuse has not interrupted the indices are 1, 2, ... in
\* order, one more than the last one shown, and the round completes when
\* index stimuliCount has been shown.
C26_StimuliShownInOrder ==
    [][/\ \A i \in 1..Len(emitted') :
             emitted'[i].name = "stimulusShown"
                => /\ emitted'[i].total = config.stimuliCount
                   /\ 1 <= emitted'[i].index
                   /\ emitted'[i].index <= emitted'[i].total
                   /\ state'.clickCountForStimulus = 0
                   /\ state'.pendingReaction = NULL
                   /\ shownInRound # NULL
                         => emitted'[i].index = shownInRound + 1
       /\ (Raised([emitted |-> emitted'], "roundComplete") /\ shownInRound' # NULL)
            => shownInRound' = config.stimuliCount]_vars

\* C27: a round that is started and not interrupted by abuse, resetFullTest or
\* another start or retry runs to its completion: a round without stimuli
\* completes inside the call that starts it and shows nothing; while the round
\* is active the timer of its next step is armed; and its completion comes
\* after stimuliCount stimuli were shown and hidden and leaves no timer live.
C27_RoundRunsToCompletion ==
    [][/\ (config.stimuliCount = 0
             /\ (op' \in {"start", "retryCurrentRound"}
                   \/ (op' = "startNextRound" /\ state.currentRound < config.rounds)))
            => /\ Raised([emitted |-> emitted'], "roundComplete")
               /\ ~Raised([emitted |-> emitted'], "stimulusShown")
       /\ state'.isRoundActive
            => \E i \in 1..Len(timers') : timers'[i].id = state'.timerId
       /\ (Raised([emitted |-> emitted'], "roundComplete") /\ shownInRound' # NULL)
            => /\ shownInRound' = config.stimuliCount
               /\ state'.currentStimulusIndex = config.stimuliCount
               /\ timers' = <<>>]_vars

\* C28: registerInput returns true exactly when the call stores the elapsed
\* time in a pendingReaction that was empty, which it does exactly for an
\* input on a visible stimulus of an active round, within the click ceiling,
\* with no reaction pending and not faster than minValidReactionTime; a call
\* that returns false leaves pendingReaction alone, and only abuse raises a
\* callback.
C28_TrueOnlyForStoredReaction ==
    [][op' = "registerInput"
          => /\ ret' <=> (/\ state.pendingReaction = NULL
                          /\ state'.pendingReaction # NULL
                          /\ state'.pendingReaction = Elapsed)
             /\ ret' <=> (/\ InputReachesStimulus
                          /\ state.clickCountForStimulus < config.maxSpamClicks
                          /\ state.pendingReaction = NULL
                          /\ Elapsed >= config.minValidReactionTime)
             /\ ~ret' => state'.pendingReaction = state.pendingReaction
             /\ emitted' # <<>>
                   => /\ ~ret'
                      /\ Raised([emitted |-> emitted'], "spamDetected")]_vars

\* The second click on a stimulus was accepted after the first had been
\* turned away as too fast, and nothing was raised.
C28_Witness ==
    /\ op = "registerInput"
    /\ ret
    /\ state.clickCountForStimulus = 2
    /\ state.pendingReaction = Elapsed
    /\ Elapsed >= config.minValidReactionTime
    /\ state.isStimulusVisible
    /\ emitted = <<>>

\* C29: onStimulusShow and onStimulusHide alternate, onStimulusShow first:
\* onStimulusShow is raised only when the last of the two raised was
\* onStimulusHide (or none was), onStimulusHide only when it was
\* onStimulusShow, and onRoundComplete never between a show and its hide.
C29_ShowAndHideAlternate ==
    [][\A i \in 1..Len(emitted') :
          LET before == ShowingAfter(showing, SubSeq(emitted', 1, i - 1))
          IN  /\ emitted'[i].name = "stimulusShown" => ~before
              /\ emitted'[i].name = "stimulusHidden" => before
              /\ emitted'[i].name = "roundComplete" => ~before]_vars

\* C30: the test history holds at most one summary per round: roundAverages
\* and allRounds are of one length, not above config.rounds, and the
\* summaries are those of rounds 1, 2, ... in order.
C30_OneSummaryPerRound ==
    /\ Len(state.roundAverages) = Len(state.allRounds)
    /\ Len(state.allRounds) <= config.rounds
    /\ \A i \in 1..Len(state.allRounds) : state.allRounds[i].roundNumber = i

\* C31: a stimulus contributes at most one sample: stimulusResults is never
\* longer than currentStimulusIndex, currentStimulusIndex never exceeds
\* stimuliCount, and no round summary counts more than stimuliCount samples.
C31_OneSamplePerStimulus ==
    /\ Len(state.stimulusResults) <= state.currentStimulusIndex
    /\ state.currentStimulusIndex <= config.stimuliCount
    /\ \A i \in 1..Len(state.allRounds) :
          state.allRounds[i].count <= config.stimuliCount

\* C32: with every timer run at its due time, an input is accepted no later
\* than exposureTime after its stimulus was shown, and at exactly exposureTime
\* only while the exposure timer, then due, has not run yet; so every
\* reaction time in stimulusResults and in a summary's raw list lies between
\* minValidReactionTime and exposureTime.
C32_ReactionWithinExposure ==
    /\ \A i \in 1..Len(state.stimulusResults) :
          /\ state.stimulusResults[i] >= config.minValidReactionTime
          /\ state.stimulusResults[i] <= config.exposureTime
    /\ \A k \in 1..Len(state.allRounds) :
          \A i \in 1..Len(state.allRounds[k].raw) :
             /\ state.allRounds[k].raw[i] >= config.minValidReactionTime
             /\ state.allRounds[k].raw[i] <= config.exposureTime
    /\ state.pendingReaction # NULL
          => state.pendingReaction <= config.exposureTime
    /\ (op = "registerInput" /\ ret /\ Elapsed = config.exposureTime)
          => \E i \in 1..Len(timers) :
                /\ timers[i].callback = "finishExposure"
                /\ timers[i].triggerTime <= now

\* An input dispatched at the instant the exposure timer was due, before the
\* timer's callback, was accepted and then committed by that callback with a
\* reaction time of exposureTime.
C32_Witness ==
    /\ op = "finishExposure"
    /\ firstAccepted = config.exposureTime
    /\ state.stimulusResults # <<>>
    /\ state.stimulusResults[Len(state.stimulusResults)] = config.exposureTime
    /\ Elapsed = config.exposureTime

====
